---- MODULE Spec2Model ----
(***************************************************************************)
(* Model of src/task2_and_task3: GithubReposScraper (main.py) and          *)
(* ClickHouseManager (db_actions.py) as driven by main().                  *)
(*                                                                         *)
(* Time is discrete: one step of Tick is 1/(requests_per_second *          *)
(* Granularity) second, so that the leaky bucket of AsyncLimiter(R, 1),    *)
(* which drains R tokens per second, drains exactly one unit of level per  *)
(* tick.  level is counted in units of 1/Granularity token.  Instead of an *)
(* absolute clock the model keeps the age of every acquisition, saturated  *)
(* at one second, which keeps the state space finite without stopping time.*)
(***************************************************************************)
EXTENDS Integers, Sequences, FiniteSets, TLC

\* ---------------------------------------------------------------- bounds
MaxRepos == 2          \* most records the list call returns
MaxCallers == 3        \* concurrent callers of _make_request in SpecGate
MaxBatch == 2          \* largest batch_size in SpecLoad
MaxRows == 3           \* most rows given to one save_* call in SpecLoad
MaxCommits == 3        \* most commit records given to the aggregation loop
Granularity == 1       \* ticks per 1/requests_per_second second

Min(a, b) == IF a < b THEN a ELSE b
Max(a, b) == IF a > b THEN a ELSE b

\* ------------------------------------------------------------ JSON values
Null == [json |-> "null"]

RequiredKeys == {"owner", "stargazers_count", "watchers_count", "forks_count"}
RepoKeys == RequiredKeys \cup {"name", "language"}

RepoName(i) == <<"r1", "r2", "r3", "r4">>[i]

\* The i-th raw repository record of the search response, without the keys
\* in missing ("login" stands for an owner object that has no login).
RawRecord(i, missing) ==
    [k \in RepoKeys \ missing |->
        CASE k = "name" -> RepoName(i)
          [] k = "owner" -> IF "login" \in missing THEN [id |-> i]
                                                    ELSE [login |-> "o"]
          [] k = "stargazers_count" -> 10 * i
          [] k = "watchers_count" -> 10 * i + 1
          [] k = "forks_count" -> 10 * i + 2
          [] k = "language" -> "py"]

\* keys a record of the response may lack
Shapes == {{}, {"name", "language"}, {"owner"}, {"login"},
           {"stargazers_count"}, {"watchers_count"}, {"forks_count"}}

\* values of datetime.now(timezone.utc).strftime('%Y-%m-%d %H:%M:%S')
Dates == {"2026-01-01 00:00:00", "2026-01-01 00:00:01"}

\* The "items" of the search responses: 0..MaxRepos records, complete but
\* for at most one of them.
ItemLists ==
    UNION {{[i \in 1..n |-> RawRecord(i, IF i = odd THEN sh ELSE {})] :
              odd \in 1..n, sh \in Shapes}
           : n \in 0..MaxRepos} \cup {<<>>}

\* Commit records of the commits endpoint: author.login present, author
\* null, author key absent, author object without login.
Commit(a) == [sha |-> "s", author |-> [login |-> a]]
CommitShapes == {Commit("a"), Commit("b"),
                 [sha |-> "s", author |-> Null],
                 [sha |-> "s"],
                 [sha |-> "s", author |-> [id |-> 1]]}

SeqsUpTo(S, n) == UNION {[1..m -> S] : m \in 0..n}

\* the commits responses of a run: no attributable commit, or two authors
RunCommitLists == {<<[sha |-> "s", author |-> Null]>>,
                   <<Commit("a"), Commit("b"), Commit("a")>>}

\* ------------------------------------------------------- python helpers
\* dict.get(key, default)
Get(d, key, default) == IF key \in DOMAIN d THEN d[key] ELSE default

\* values[i:j] for 0 <= i <= j (0-based, end exclusive, clipped)
Slice(values, i, j) == SubSeq(values, i + 1, Min(j, Len(values)))

\* bool(commit.get("author")): absent and null are falsy
Truthy(v) == v # Null

RECURSIVE Flatten(_)
Flatten(ss) == IF ss = <<>> THEN <<>> ELSE Head(ss) \o Flatten(Tail(ss))


\* ------------------------------------------------ program configuration
\* values of config.py the run is checked with (each is read from the
\* environment)
MAX_CONCURRENT_REQUESTS == {1, 2}
REQUESTS_PER_SECOND == 2
BATCH_SIZE == 10000

\* the destination tables, in the order main() starts their save_* calls
TableSeq == <<"repositories", "repositories_positions",
              "repositories_authors_commits">>
Tables == {TableSeq[k] : k \in 1..Len(TableSeq)}
\* callers of _make_request. In a run, 0 is the search request and i the
\* task of record i; in SpecGate, 1..MaxCallers are concurrent tasks.
Callers == 0..Max(MaxRepos, MaxCallers)
NotAcquired == 0 - 1

VARIABLES
    max_concurrent_requests, \* argument of GithubReposScraper.__init__
    requests_per_second,     \* argument of GithubReposScraper.__init__
    batch_size,              \* argument of _execute_query
    semaphore,      \* Semaphore._value: free concurrency slots
    level,          \* AsyncLimiter._level, in 1/Granularity tokens
    session_closed, \* GithubReposScraper._session is closed
    ch_closed,      \* ClickHouseManager._ch_session is closed
    main_pc,        \* position of main()
    main_exc,       \* exception main() ends with ("" for none)
    pc,             \* position of each caller of _make_request
    exc,            \* exception each task ended with ("" for none)
    acq_age,        \* ticks since the caller passed the limiter
    sent,           \* requests each caller handed to the session
    sent_age,       \* ticks since the caller's request was sent
    top_repos,      \* result of _get_top_repositories
    result,         \* Repository returned by each task
    task_commits,   \* commits each task got from _get_repository_commits
    done_order,     \* tasks in the order gather saw them end
    gather_error,   \* first task that raised (0 for none)
    repos_data,     \* what get_repositories returned
    date_today,     \* timestamp of the run ("" before it is taken)
    values,         \* rows given to each save_* call
    save_pc,        \* position of each save_* call
    save_i,         \* loop variable i of _execute_query
    issued,         \* chunks passed to ChClient.execute, in order
    stored,         \* rows the store holds, per table
    save_error,     \* first save_* call that raised ("" for none)
    agg_commits,    \* input of the aggregation loop
    agg_idx,        \* commits consumed by the loop
    authors_count   \* dict authors_count, as pairs in insertion order

confVars == <<max_concurrent_requests, requests_per_second, batch_size>>
gateVars == <<semaphore, level, acq_age, sent, sent_age>>
taskVars == <<pc, exc, result, task_commits, done_order, gather_error>>
mainVars == <<main_pc, main_exc, top_repos, repos_data, date_today,
              session_closed, ch_closed>>
saveVars == <<values, save_pc, save_i, issued, stored, save_error>>
aggVars == <<agg_commits, agg_idx, authors_count>>
vars == <<confVars, gateVars, taskVars, mainVars, saveVars, aggVars>>

\* ticks in the 1 second time_period of AsyncLimiter(requests_per_second, 1)
TicksPerSecond == requests_per_second * Granularity
\* level reached by max_rate acquisitions; one acquisition adds Granularity
MaxLevel == requests_per_second * Granularity

NoResult == [none |-> TRUE]

\* ------------------------------------------------------------- the gate
\* a has_capacity that looks at the level before the amount is added
\* (mutant of HasCapacity)
HasCapacityBeforeAdding(lvl) == lvl <= MaxLevel

\* AsyncLimiter.has_capacity(1): self._level + amount <= self.max_rate
HasCapacity(lvl) == lvl + Granularity <= MaxLevel

\* a locked() that compares with < (mutant of SemLocked)
SemLockedBelowZero(value) == value < 0

\* asyncio.Semaphore.locked()
SemLocked(value) == value = 0

\* a release that forgets to add the slot (mutant of SemRelease)
SemReleaseNothing(value) == value

\* asyncio.Semaphore.release(), run when the `async with` block is left
SemRelease(value) == value + 1

GateState(p, lvl, sem, acquired, e) ==
    [pc |-> p, level |-> lvl, semaphore |-> sem, acquired |-> acquired,
     exc |-> e]

\* `async with ..., self._semaphore, self._session.request(...)`: a caller
\* that finds the semaphore locked suspends; otherwise it takes a slot and
\* sends the request (a closed session raises at once and the slot is
\* given back).
SemStage(lvl, sem, closed, acquired) ==
    IF SemLocked(sem) THEN GateState("sem", lvl, sem, acquired, "")
    ELSE IF closed
         THEN GateState("failed", lvl, SemRelease(sem - 1), acquired,
                        "RuntimeError")
         ELSE GateState("inflight", lvl, sem - 1, acquired, "")

\* `async with self._limiter, ...`: AsyncLimiter.acquire() suspends while
\* the bucket has no capacity, then adds one token to the level.
LimiterStage(lvl, sem, closed) ==
    IF HasCapacity(lvl) THEN SemStage(lvl + Granularity, sem, closed, TRUE)
    ELSE GateState("limiter", lvl, sem, FALSE, "")

\* ------------------------------------------------------ _process_repository
DictHas(d, k) == \E j \in 1..Len(d) : d[j][1] = k
DictGet(d, k, default) ==
    IF DictHas(d, k) THEN d[CHOOSE j \in 1..Len(d) : d[j][1] = k][2]
    ELSE default
DictSet(d, k, v) ==
    IF DictHas(d, k) THEN [j \in 1..Len(d) |-> IF d[j][1] = k THEN <<k, v>> ELSE d[j]]
    ELSE Append(d, <<k, v>>)

\* body of `for commit in commits` (main.py 109-111)
CountCommit(ac, commit) ==
    IF Truthy(Get(commit, "author", Null))
    THEN LET author == Get(commit["author"], "login", "unknown")
         IN DictSet(ac, author, DictGet(ac, author, 0) + 1)
    ELSE ac

RECURSIVE CountCommits(_, _)
CountCommits(ac, commits) ==
    IF commits = <<>> THEN ac
    ELSE CountCommits(CountCommit(ac, Head(commits)), Tail(commits))

\* authors_commits (main.py 107-113)
AuthorsCommits(commits) ==
    LET ac == CountCommits(<<>>, commits)
    IN [j \in 1..Len(ac) |-> [author |-> ac[j][1], commits_num |-> ac[j][2]]]

\* repo_data["owner"]["login"] raises KeyError
OwnerKeyError(repo_data) ==
    \/ "owner" \notin DOMAIN repo_data
    \/ "login" \notin DOMAIN repo_data["owner"]

\* Repository(...) raises KeyError (main.py 119-121)
BuildKeyError(repo_data) ==
    \E k \in {"stargazers_count", "watchers_count", "forks_count"} :
        k \notin DOMAIN repo_data

\* the Repository built at main.py 115-124
BuildRepository(repo_data, position, commits) ==
    [name |-> Get(repo_data, "name", "UNKNOWN"),
     owner |-> repo_data["owner"]["login"],
     position |-> position,
     stars |-> repo_data["stargazers_count"],
     watchers |-> repo_data["watchers_count"],
     forks |-> repo_data["forks_count"],
     language |-> Get(repo_data, "language", "Unknown"),
     authors_commits_num_today |-> AuthorsCommits(commits)]

\* --------------------------------------------------------- get_repositories
NumTasks == Len(top_repos)
Tasks == 1..NumTasks

\* The event loop runs the first step of every task that gather created,
\* in the order of creation, before it handles any later event.
NoneReady == \A j \in Tasks : pc[j] # "ready"

\* the results in the order the tasks ended (mutant of GatherResults)
GatherResultsAsCompleted == [k \in 1..NumTasks |-> result[done_order[k]]]

\* asyncio.gather(*tasks): the results in the order of the tasks
GatherResults == [i \in 1..NumTasks |-> result[i]]

\* ------------------------------------------------------------------ main
RepoRow(r, d) ==
    <<r.name, r.owner, r.stars, r.watchers, r.forks, r.language, d>>
PositionRow(r, d) == <<d, r.name, r.position>>
\* a comprehension that keeps the first author of a repository only
\* (mutant of CommitRows)
CommitRowsFirstAuthor(r, d) ==
    [j \in 1..Min(1, Len(r.authors_commits_num_today)) |->
        <<d, r.name, r.authors_commits_num_today[j].author,
          r.authors_commits_num_today[j].commits_num>>]

CommitRows(r, d) ==
    [j \in 1..Len(r.authors_commits_num_today) |->
        <<d, r.name, r.authors_commits_num_today[j].author,
          r.authors_commits_num_today[j].commits_num>>]

\* rows whose timestamp is read from the clock again for every table
\* (mutant of RowsOf)
RowsOfClockPerTable(repos, d) ==
    [s \in Tables |->
        CASE s = "repositories" -> [j \in 1..Len(repos) |-> RepoRow(repos[j], d)]
          [] s = "repositories_positions" ->
                [j \in 1..Len(repos) |->
                    PositionRow(repos[j], CHOOSE e \in Dates : e # d)]
          [] s = "repositories_authors_commits" ->
                Flatten([j \in 1..Len(repos) |->
                            CommitRows(repos[j], CHOOSE e \in Dates : e # d)])]

\* repo_data, positions_data, commits_data (main.py 153-155)
RowsOf(repos, d) ==
    [s \in Tables |->
        CASE s = "repositories" -> [j \in 1..Len(repos) |-> RepoRow(repos[j], d)]
          [] s = "repositories_positions" ->
                [j \in 1..Len(repos) |-> PositionRow(repos[j], d)]
          [] s = "repositories_authors_commits" ->
                Flatten([j \in 1..Len(repos) |-> CommitRows(repos[j], d)])]

\* ------------------------------------------------------------- the state
\* GithubReposScraper.__init__ and ClickHouseManager.__init__
Constructed ==
    /\ semaphore = max_concurrent_requests
    /\ level = 0
    /\ session_closed = FALSE
    /\ ch_closed = FALSE
    /\ main_pc = "start"
    /\ main_exc = ""
    /\ pc = [i \in Callers |-> "absent"]
    /\ exc = [i \in Callers |-> ""]
    /\ acq_age = [i \in Callers |-> NotAcquired]
    /\ sent = [i \in Callers |-> 0]
    /\ sent_age = [i \in Callers |-> NotAcquired]
    /\ top_repos = <<>>
    /\ result = [i \in Callers |-> NoResult]
    /\ task_commits = [i \in Callers |-> <<>>]
    /\ done_order = <<>>
    /\ gather_error = 0
    /\ repos_data = [returned |-> FALSE, value |-> <<>>]
    /\ date_today = ""
    /\ values = [s \in Tables |-> <<>>]
    /\ save_pc = [s \in Tables |-> "absent"]
    /\ save_i = [s \in Tables |-> 0]
    /\ issued = [s \in Tables |-> <<>>]
    /\ stored = [s \in Tables |-> <<>>]
    /\ save_error = ""

NoAggregation ==
    /\ agg_commits = <<>>
    /\ agg_idx = 0
    /\ authors_count = <<>>

\* main.py 146-147
Init ==
    /\ max_concurrent_requests \in MAX_CONCURRENT_REQUESTS
    /\ requests_per_second = REQUESTS_PER_SECOND
    /\ batch_size = BATCH_SIZE
    /\ Constructed
    /\ NoAggregation

\* a task ends: its result or exception reaches gather's done callback,
\* which keeps the first exception and ignores whatever ends after it
TaskEnds(i, p, e, res) ==
    /\ pc' = [pc EXCEPT ![i] = p]
    /\ exc' = [exc EXCEPT ![i] = e]
    /\ result' = [result EXCEPT ![i] = res]
    /\ done_order' = IF gather_error = 0 THEN Append(done_order, i)
                     ELSE done_order
    /\ gather_error' = IF p = "failed" /\ gather_error = 0 THEN i
                       ELSE gather_error

\* caller i moves to the gate position g
Apply(i, g) ==
    /\ semaphore' = g.semaphore
    /\ level' = g.level
    /\ acq_age' = IF g.acquired THEN [acq_age EXCEPT ![i] = 0] ELSE acq_age
    /\ sent' = IF g.pc = "inflight" THEN [sent EXCEPT ![i] = @ + 1] ELSE sent
    /\ sent_age' = IF g.pc = "inflight" THEN [sent_age EXCEPT ![i] = 0]
                   ELSE sent_age
    /\ IF g.pc = "failed"
       THEN TaskEnds(i, "failed", g.exc, NoResult)
       ELSE /\ pc' = [pc EXCEPT ![i] = g.pc]
            /\ UNCHANGED <<exc, result, done_order, gather_error>>
    /\ UNCHANGED task_commits

\* time passes in a run, 1/requests_per_second second at a time: the
\* bucket leaks one token (the ages of the acquisitions and the finer
\* instants are followed in SpecGate only)
Leak ==
    /\ level' = Max(level - Granularity, 0)
    /\ UNCHANGED <<semaphore, acq_age, sent, sent_age, taskVars, mainVars,
                   saveVars, aggVars, confVars>>

\* time passes: the bucket leaks one unit, acquisitions age
Tick ==
    /\ level' = Max(level - 1, 0)
    /\ acq_age' = [i \in Callers |->
                      IF acq_age[i] \in 0..(TicksPerSecond - 1)
                      THEN acq_age[i] + 1 ELSE acq_age[i]]
    /\ sent_age' = [i \in Callers |->
                       IF sent_age[i] \in 0..(TicksPerSecond - 1)
                       THEN sent_age[i] + 1 ELSE sent_age[i]]
    /\ UNCHANGED <<semaphore, sent, taskVars, mainVars, saveVars, aggVars,
                   confVars>>

\* main() calls get_repositories, which runs up to its first suspension
\* inside _make_request for the search request
StartMain ==
    /\ main_pc = "start"
    /\ main_pc' = "list"
    /\ Apply(0, LimiterStage(level, semaphore, session_closed))
    /\ UNCHANGED <<main_exc, top_repos, repos_data, date_today,
                   session_closed, ch_closed, saveVars, aggVars, confVars>>

\* a caller suspended in AsyncLimiter.acquire() finds capacity
LimiterWake(i) ==
    /\ NoneReady
    /\ pc[i] = "limiter"
    /\ HasCapacity(level)
    /\ Apply(i, LimiterStage(level, semaphore, session_closed))
    /\ UNCHANGED <<mainVars, saveVars, aggVars, confVars>>

\* a caller suspended in Semaphore.acquire() gets a slot
SemWake(i) ==
    /\ NoneReady
    /\ pc[i] = "sem"
    /\ ~SemLocked(semaphore)
    /\ Apply(i, SemStage(level, semaphore, session_closed, FALSE))
    /\ UNCHANGED <<mainVars, saveVars, aggVars, confVars>>

\* _process_repository runs up to its first suspension (main.py 100-105)
StartTask(i) ==
    /\ i \in Tasks
    /\ pc[i] = "ready"
    /\ \A j \in 1..(i - 1) : pc[j] # "ready"
    /\ IF OwnerKeyError(top_repos[i])
       THEN /\ TaskEnds(i, "failed", "KeyError", NoResult)
            /\ UNCHANGED <<gateVars, task_commits>>
       ELSE Apply(i, LimiterStage(level, semaphore, session_closed))
    /\ UNCHANGED <<mainVars, saveVars, aggVars, confVars>>

ClientErrors == {"ClientResponseError", "ClientConnectionError"}

\* the search request ends (main.py 63-70, 81-83, 136-137)
ListResponds ==
    /\ pc[0] = "inflight"
    /\ semaphore' = SemRelease(semaphore)
    /\ \/ \E data \in {[items |-> l] : l \in ItemLists} \cup {[total_count |-> 0]} :
            LET repositories == Get(data, "items", <<>>) IN
            /\ top_repos' = repositories
            /\ pc' = [i \in Callers |->
                         IF i = 0 THEN "done"
                         ELSE IF i <= Len(repositories) THEN "ready"
                         ELSE pc[i]]
            /\ main_pc' = "gather"
            /\ UNCHANGED <<exc, main_exc>>
       \/ \E e \in ClientErrors :
            /\ pc' = [pc EXCEPT ![0] = "failed"]
            /\ exc' = [exc EXCEPT ![0] = e]
            /\ main_exc' = e
            /\ main_pc' = "close_http"
            /\ UNCHANGED top_repos
    /\ UNCHANGED <<level, acq_age, sent, sent_age, result, task_commits,
                   done_order, gather_error, repos_data, date_today,
                   session_closed, ch_closed, saveVars, aggVars, confVars>>

\* a _make_request that sends the request again when it fails (mutant of
\* CommitsRespond)
CommitsRespondRetries(i) ==
    /\ NoneReady
    /\ i \in Tasks
    /\ pc[i] = "inflight"
    /\ \/ \E commits \in RunCommitLists :
            /\ semaphore' = SemRelease(semaphore)
            /\ task_commits' = [task_commits EXCEPT ![i] = commits]
            /\ IF BuildKeyError(top_repos[i])
               THEN TaskEnds(i, "failed", "KeyError", NoResult)
               ELSE TaskEnds(i, "done", "",
                             BuildRepository(top_repos[i], i, commits))
            /\ UNCHANGED <<sent, sent_age>>
       \/ /\ sent' = [sent EXCEPT ![i] = @ + 1]
          /\ sent_age' = [sent_age EXCEPT ![i] = 0]
          /\ UNCHANGED <<semaphore, taskVars>>
    /\ UNCHANGED <<level, acq_age, mainVars, saveVars, aggVars, confVars>>

\* a commits request ends (main.py 63-70) and the task runs to its end
\* (main.py 107-131)
CommitsRespond(i) ==
    /\ NoneReady
    /\ i \in Tasks
    /\ pc[i] = "inflight"
    /\ semaphore' = SemRelease(semaphore)
    /\ \/ \E commits \in RunCommitLists :
            /\ task_commits' = [task_commits EXCEPT ![i] = commits]
            /\ IF BuildKeyError(top_repos[i])
               THEN TaskEnds(i, "failed", "KeyError", NoResult)
               ELSE TaskEnds(i, "done", "",
                             BuildRepository(top_repos[i], i, commits))
       \/ \E e \in ClientErrors :
            /\ TaskEnds(i, "failed", e, NoResult)
            /\ UNCHANGED task_commits
    /\ UNCHANGED <<level, acq_age, sent, sent_age, mainVars, saveVars, aggVars,
                   confVars>>

\* a gather that waits for every task to end and returns the results of
\* those that returned, as with return_exceptions=True (mutant of
\* GatherReturn)
GatherReturnIgnoringErrors ==
    /\ NoneReady
    /\ main_pc = "gather"
    /\ \A i \in Tasks : pc[i] \in {"done", "failed"}
    /\ LET returned == SelectSeq(GatherResults, LAMBDA r : r # NoResult) IN
       /\ repos_data' = [returned |-> TRUE, value |-> returned]
       /\ \E d \in Dates :
            /\ date_today' = d
            /\ values' = RowsOf(returned, d)
    /\ save_pc' = [s \in Tables |-> "ready"]
    /\ main_pc' = "saving"
    /\ UNCHANGED <<gateVars, taskVars, main_exc, top_repos, session_closed,
                   ch_closed, save_i, issued, stored, save_error, aggVars,
                   confVars>>

\* gather returns once every task has returned (main.py 137); main goes on
\* to build the rows and start the three save_* calls (main.py 150-161)
GatherReturn ==
    /\ NoneReady
    /\ main_pc = "gather"
    /\ gather_error = 0
    /\ \A i \in Tasks : pc[i] = "done"
    /\ repos_data' = [returned |-> TRUE, value |-> GatherResults]
    /\ \E d \in Dates :
         /\ date_today' = d
         /\ values' = RowsOf(GatherResults, d)
    /\ save_pc' = [s \in Tables |-> "ready"]
    /\ main_pc' = "saving"
    /\ UNCHANGED <<gateVars, taskVars, main_exc, top_repos, session_closed,
                   ch_closed, save_i, issued, stored, save_error, aggVars, confVars>>

\* a main that catches the exception of gather and saves the results of
\* the tasks that have returned (mutant of GatherRaise)
GatherRaiseSavesPartial ==
    /\ NoneReady
    /\ main_pc = "gather"
    /\ gather_error # 0
    /\ LET returned == SelectSeq(GatherResults, LAMBDA r : r # NoResult) IN
       \E d \in Dates :
            /\ date_today' = d
            /\ values' = RowsOf(returned, d)
    /\ save_pc' = [s \in Tables |-> "ready"]
    /\ main_exc' = exc[gather_error]
    /\ main_pc' = "saving"
    /\ UNCHANGED <<gateVars, taskVars, top_repos, repos_data, session_closed,
                   ch_closed, save_i, issued, stored, save_error, aggVars,
                   confVars>>

\* gather raises the first exception of a task; main enters `finally`
GatherRaise ==
    /\ NoneReady
    /\ main_pc = "gather"
    /\ gather_error # 0
    /\ main_exc' = exc[gather_error]
    /\ main_pc' = "close_http"
    /\ UNCHANGED <<gateVars, taskVars, top_repos, repos_data, date_today,
                   session_closed, ch_closed, saveVars, aggVars, confVars>>

\* ---------------------------------------------------- ClickHouseManager
\* `for i in range(0, len(values), batch_size)`: another iteration follows i
RangeHasNext(i, stop, step) == i + step < stop

\* a slice that ends one row early (mutant of Batch)
BatchEndsEarly(vals, i) == Slice(vals, i, i + batch_size - 1)

\* batch = values[i:i + batch_size]
Batch(vals, i) == Slice(vals, i, i + batch_size)

\* The event loop runs the first step of every save_* call that was
\* started, in the order of creation, before it handles any later event.
NoSaveReady == \A t \in Tables : save_pc[t] # "ready"

\* a save_* that passes its rows to the store without looking at them
\* (mutant of SaveStart)
SaveStartInsertsAnyway(s) ==
    /\ save_pc[s] = "ready"
    /\ save_pc' = [save_pc EXCEPT ![s] = "inserting"]
    /\ save_i' = [save_i EXCEPT ![s] = 0]
    /\ issued' = [issued EXCEPT ![s] = Append(@, Slice(values[s], 0, batch_size))]
    /\ UNCHANGED <<gateVars, taskVars, mainVars, values, stored, save_error,
                   aggVars, confVars>>

\* an _execute_query that starts the inserts of all its chunks together
\* (mutant of SaveStart)
SaveStartAllChunks(s) ==
    /\ save_pc[s] = "ready"
    /\ IF values[s] = <<>>
       THEN /\ save_pc' = [save_pc EXCEPT ![s] = "done"]
            /\ UNCHANGED <<save_i, issued>>
       ELSE /\ save_pc' = [save_pc EXCEPT ![s] = "inserting"]
            /\ save_i' = [save_i EXCEPT ![s] = 0]
            /\ issued' = [issued EXCEPT
                  ![s] = [k \in 1..((Len(values[s]) + batch_size - 1) \div batch_size)
                            |-> Batch(values[s], (k - 1) * batch_size)]]
    /\ UNCHANGED <<gateVars, taskVars, mainVars, values, stored, save_error,
                   aggVars, confVars>>

\* save_*: `if not rows: return`, else _execute_query up to its first
\* `await self._ch_client.execute(query, *batch)`
SaveStart(s) ==
    /\ save_pc[s] = "ready"
    /\ \A k, m \in 1..Len(TableSeq) :
          k < m /\ TableSeq[m] = s => save_pc[TableSeq[k]] # "ready"
    /\ IF values[s] = <<>>
       THEN /\ save_pc' = [save_pc EXCEPT ![s] = "done"]
            /\ UNCHANGED <<save_i, issued>>
       ELSE /\ save_pc' = [save_pc EXCEPT ![s] = "inserting"]
            /\ save_i' = [save_i EXCEPT ![s] = 0]
            /\ issued' = [issued EXCEPT ![s] = Append(@, Batch(values[s], 0))]
    /\ UNCHANGED <<gateVars, taskVars, mainVars, values, stored, save_error,
                   aggVars, confVars>>

\* the insert of the current chunk succeeds; the loop goes on or ends
InsertOk(s) ==
    /\ NoSaveReady
    /\ save_pc[s] = "inserting"
    /\ stored' = [stored EXCEPT ![s] = @ \o issued[s][Len(issued[s])]]
    /\ IF RangeHasNext(save_i[s], Len(values[s]), batch_size)
       THEN /\ save_i' = [save_i EXCEPT ![s] = @ + batch_size]
            /\ issued' = [issued EXCEPT
                            ![s] = Append(@, Batch(values[s], save_i[s] + batch_size))]
            /\ UNCHANGED save_pc
       ELSE /\ save_pc' = [save_pc EXCEPT ![s] = "done"]
            /\ UNCHANGED <<save_i, issued>>
    /\ UNCHANGED <<gateVars, taskVars, mainVars, values, save_error, aggVars, confVars>>

\* an _execute_query that logs the error of a chunk and goes on with the
\* next one (mutant of InsertFail)
InsertFailGoesOn(s) ==
    /\ save_pc[s] = "inserting"
    /\ IF save_i[s] + batch_size < Len(values[s])
       THEN /\ save_i' = [save_i EXCEPT ![s] = @ + batch_size]
            /\ issued' = [issued EXCEPT
                            ![s] = Append(@, Slice(values[s], save_i[s] + batch_size,
                                                   save_i[s] + 2 * batch_size))]
            /\ UNCHANGED <<save_pc, save_error>>
       ELSE /\ save_pc' = [save_pc EXCEPT ![s] = "failed"]
            /\ save_error' = IF save_error = "" THEN s ELSE save_error
            /\ UNCHANGED <<save_i, issued>>
    /\ UNCHANGED <<gateVars, taskVars, mainVars, values, stored, aggVars,
                   confVars>>

\* the insert of the current chunk raises; _execute_query logs and re-raises
InsertFail(s) ==
    /\ NoSaveReady
    /\ save_pc[s] = "inserting"
    /\ save_pc' = [save_pc EXCEPT ![s] = "failed"]
    /\ save_error' = IF save_error = "" THEN s ELSE save_error
    /\ UNCHANGED <<gateVars, taskVars, mainVars, values, save_i, issued,
                   stored, aggVars, confVars>>

\* the gather of the three save_* calls returns (main.py 157-161)
SavesReturn ==
    /\ NoSaveReady
    /\ main_pc = "saving"
    /\ save_error = ""
    /\ \A s \in Tables : save_pc[s] = "done"
    /\ main_pc' = "close_http"
    /\ UNCHANGED <<gateVars, taskVars, main_exc, top_repos, repos_data,
                   date_today, session_closed, ch_closed, saveVars, aggVars, confVars>>

\* the gather of the three save_* calls raises the first exception
SavesRaise ==
    /\ NoSaveReady
    /\ main_pc = "saving"
    /\ save_error # ""
    /\ main_exc' = "Exception"
    /\ main_pc' = "close_http"
    /\ UNCHANGED <<gateVars, taskVars, top_repos, repos_data, date_today,
                   session_closed, ch_closed, saveVars, aggVars, confVars>>

\* finally: await github_scraper.close() (main.py 164)
CloseHttp ==
    /\ main_pc = "close_http"
    /\ session_closed' = TRUE
    /\ main_pc' = "close_ch"
    /\ UNCHANGED <<gateVars, taskVars, main_exc, top_repos, repos_data,
                   date_today, ch_closed, saveVars, aggVars, confVars>>

\* finally: await clickhouse_manager.close() (main.py 165)
CloseCh ==
    /\ main_pc = "close_ch"
    /\ ch_closed' = TRUE
    /\ main_pc' = "exit"
    /\ UNCHANGED <<gateVars, taskVars, main_exc, top_repos, repos_data,
                   date_today, session_closed, saveVars, aggVars, confVars>>

Pending(p) == p \in {"ready", "limiter", "sem", "inflight", "inserting"}

\* gather has its result or its exception already: cancelling main no
\* longer reaches the tasks
GatherDone ==
    /\ main_pc = "gather"
    /\ gather_error # 0 \/ \A i \in Tasks : pc[i] = "done"

\* a cancellation that unwinds the tasks without leaving their
\* `async with` (mutant of CancelCollect)
CancelCollectKeepsSlots ==
    /\ main_pc \in {"list", "gather"}
    /\ main_exc' = "CancelledError"
    /\ main_pc' = "close_http"
    /\ pc' = [i \in Callers |->
                 IF Pending(pc[i]) /\ ~GatherDone THEN "cancelled" ELSE pc[i]]
    /\ UNCHANGED <<semaphore, level, acq_age, sent, sent_age, exc, result,
                   task_commits, done_order, gather_error, top_repos,
                   repos_data, date_today, session_closed, ch_closed,
                   saveVars, aggVars, confVars>>

\* The task of main() is cancelled while it awaits get_repositories (what
\* asyncio.run does on an interrupt). In the search request the
\* CancelledError is raised inside _make_request; in gather it cancels
\* every task, each of which leaves its `async with` (a task in flight
\* gives its slot back), and main goes on to `finally` once they have ended.
CancelCollect ==
    /\ main_pc \in {"list", "gather"}
    /\ main_exc' = "CancelledError"
    /\ main_pc' = "close_http"
    /\ IF GatherDone
       THEN UNCHANGED <<pc, semaphore>>
       ELSE /\ pc' = [i \in Callers |->
                         IF Pending(pc[i]) THEN "cancelled" ELSE pc[i]]
            /\ semaphore' = semaphore
                             + Cardinality({i \in Callers : pc[i] = "inflight"})
    /\ UNCHANGED <<level, acq_age, sent, sent_age, exc, result, task_commits,
                   done_order, gather_error, top_repos, repos_data,
                   date_today, session_closed, ch_closed, saveVars, aggVars,
                   confVars>>

\* asyncio.run(main()) (main.py 169): main has ended, the tasks still
\* pending are cancelled; a cancelled request leaves its `async with`
Exit ==
    /\ main_pc = "exit"
    /\ main_pc' = "finished"
    /\ semaphore' = semaphore + Cardinality({i \in Callers : pc[i] = "inflight"})
    /\ pc' = [i \in Callers |-> IF Pending(pc[i]) THEN "cancelled" ELSE pc[i]]
    /\ save_pc' = [s \in Tables |->
                      IF Pending(save_pc[s]) THEN "cancelled" ELSE save_pc[s]]
    /\ UNCHANGED <<level, acq_age, sent, sent_age, exc, result, task_commits,
                   done_order, gather_error,
                   main_exc, top_repos, repos_data, date_today,
                   session_closed, ch_closed, values, save_i, issued, stored,
                   save_error, aggVars, confVars>>

Next ==
    \/ Leak
    \/ StartMain
    \/ \E i \in Callers : LimiterWake(i)
    \/ \E i \in Callers : SemWake(i)
    \/ \E i \in Callers : StartTask(i)
    \/ ListResponds
    \/ \E i \in Callers : CommitsRespond(i)
    \/ GatherReturn
    \/ GatherRaise
    \/ CancelCollect
    \/ \E s \in Tables : SaveStart(s)
    \/ \E s \in Tables : InsertOk(s)
    \/ \E s \in Tables : InsertFail(s)
    \/ SavesReturn
    \/ SavesRaise
    \/ CloseHttp
    \/ CloseCh
    \/ Exit

Spec == Init /\ [][Next]_vars

\* The run under a fair event loop: time passes, a coroutine that can run
\* is run, and every request sent is answered or fails. Nothing obliges
\* anybody to cancel the run.
Fairness ==
    /\ WF_vars(Leak)
    /\ WF_vars(StartMain)
    /\ WF_vars(ListResponds)
    /\ \A i \in Callers :
          /\ WF_vars(StartTask(i))
          /\ WF_vars(LimiterWake(i))
          /\ WF_vars(SemWake(i))
          /\ WF_vars(CommitsRespond(i))
    /\ WF_vars(GatherReturn)
    /\ WF_vars(GatherRaise)
    /\ \A s \in Tables :
          /\ WF_vars(SaveStart(s))
          /\ WF_vars(InsertOk(s) \/ InsertFail(s))
    /\ WF_vars(SavesReturn)
    /\ WF_vars(SavesRaise)
    /\ WF_vars(CloseHttp)
    /\ WF_vars(CloseCh)
    /\ WF_vars(Exit)

SpecFair == Spec /\ Fairness

\* ------------------------------ _make_request under concurrent callers
\* the pairs <<max_concurrent_requests, requests_per_second>> tried
GateConfigs == {<<1, 1>>, <<1, 2>>, <<2, 1>>, <<2, 2>>}

InitGate ==
    /\ \E c \in GateConfigs :
         /\ max_concurrent_requests = c[1]
         /\ requests_per_second = c[2]
    /\ batch_size = BATCH_SIZE
    /\ Constructed
    /\ NoAggregation

GateCallers == 1..MaxCallers

\* a task calls _make_request and runs up to its first suspension (the
\* tasks are numbered in the order of their calls)
CallMakeRequest(i) ==
    /\ pc[i] = "absent"
    /\ \A j \in GateCallers : j < i => pc[j] # "absent"
    /\ Apply(i, LimiterStage(level, semaphore, session_closed))
    /\ UNCHANGED <<mainVars, saveVars, aggVars, confVars>>

\* a request whose slot is given back on success only (mutant of
\* RequestEnds)
RequestEndsKeepsSlotOnError(i) ==
    /\ pc[i] = "inflight"
    /\ \/ /\ pc' = [pc EXCEPT ![i] = "done"]
          /\ semaphore' = SemRelease(semaphore)
          /\ UNCHANGED exc
       \/ \E e \in ClientErrors :
            /\ pc' = [pc EXCEPT ![i] = "failed"]
            /\ exc' = [exc EXCEPT ![i] = e]
            /\ UNCHANGED semaphore
    /\ UNCHANGED <<level, acq_age, sent, sent_age, result, task_commits,
                   done_order, gather_error, mainVars, saveVars, aggVars,
                   confVars>>

\* the request of caller i ends: the response is returned, or
\* raise_for_status or the transport raises (main.py 63-70)
RequestEnds(i) ==
    /\ pc[i] = "inflight"
    /\ semaphore' = SemRelease(semaphore)
    /\ \/ /\ pc' = [pc EXCEPT ![i] = "done"]
          /\ UNCHANGED exc
       \/ \E e \in ClientErrors :
            /\ pc' = [pc EXCEPT ![i] = "failed"]
            /\ exc' = [exc EXCEPT ![i] = e]
    /\ UNCHANGED <<level, acq_age, sent, sent_age, result, task_commits,
                   done_order, gather_error, mainVars, saveVars, aggVars,
                   confVars>>

NextGate ==
    \/ Tick
    \/ \E i \in GateCallers : CallMakeRequest(i)
    \/ \E i \in GateCallers : LimiterWake(i)
    \/ \E i \in GateCallers : SemWake(i)
    \/ \E i \in GateCallers : RequestEnds(i)

SpecGate == InitGate /\ [][NextGate]_vars

\* --------------------- 2 * requests_per_second callers at the same instant
\* pairs <<max_concurrent_requests, requests_per_second>> whose concurrency
\* cap is at least twice the rate cap
BurstConfigs == {<<2, 1>>, <<3, 1>>, <<4, 2>>}

InitBurst ==
    /\ \E c \in BurstConfigs :
         /\ max_concurrent_requests = c[1]
         /\ requests_per_second = c[2]
    /\ batch_size = BATCH_SIZE
    /\ Constructed
    /\ NoAggregation

BurstCallers == 0..(2 * requests_per_second - 1)
AllCalled == \A i \in BurstCallers : pc[i] # "absent"

\* the tasks call _make_request one after the other, in the order of their
\* creation, before any time passes
BurstCall(i) ==
    /\ i \in BurstCallers
    /\ \A j \in 0..(i - 1) : pc[j] # "absent"
    /\ CallMakeRequest(i)

\* time passes once every task has called
BurstTick == AllCalled /\ Tick

\* the semaphore has max_concurrent_requests >= 2 * requests_per_second
\* slots for as many callers: no caller is ever suspended on it
NextBurst ==
    \/ BurstTick
    \/ \E i \in BurstCallers : BurstCall(i)
    \/ \E i \in BurstCallers : LimiterWake(i)
    \/ \E i \in BurstCallers : RequestEnds(i)

SpecBurst == InitBurst /\ [][NextBurst]_vars

\* ------------------------------------- ClickHouseManager under any rows
InitLoad ==
    /\ max_concurrent_requests = 1
    /\ requests_per_second = REQUESTS_PER_SECOND
    /\ batch_size \in 1..MaxBatch
    /\ Constructed
    /\ NoAggregation

\* save_repositories, save_positions or save_commits is called with n rows
CallSave(s) ==
    /\ save_pc[s] = "absent"
    /\ \E n \in 0..MaxRows : values' = [values EXCEPT ![s] = [k \in 1..n |-> <<s, k>>]]
    /\ save_pc' = [save_pc EXCEPT ![s] = "ready"]
    /\ UNCHANGED <<gateVars, taskVars, mainVars, save_i, issued, stored,
                   save_error, aggVars, confVars>>

\* what get_repositories may have returned: Repository objects of complete
\* records
RepoLists ==
    UNION {{[i \in 1..n |-> BuildRepository(RawRecord(i, {}), i, cl[i])] :
              cl \in [1..n -> RunCommitLists]}
           : n \in 0..MaxRepos}

\* main() after get_repositories has returned: it takes the timestamp,
\* builds the rows and starts the three save_* calls (main.py 151-161)
MainSaves ==
    /\ \A s \in Tables : save_pc[s] = "absent"
    /\ \E repos \in RepoLists, d \in Dates :
         /\ repos_data' = [returned |-> TRUE, value |-> repos]
         /\ date_today' = d
         /\ values' = RowsOf(repos, d)
    /\ save_pc' = [s \in Tables |-> "ready"]
    /\ UNCHANGED <<gateVars, taskVars, main_pc, main_exc, top_repos,
                   session_closed, ch_closed, save_i, issued, stored,
                   save_error, aggVars, confVars>>

NextLoad ==
    \/ MainSaves
    \/ \E s \in Tables : CallSave(s)
    \/ \E s \in Tables : SaveStart(s)
    \/ \E s \in Tables : InsertOk(s)
    \/ \E s \in Tables : InsertFail(s)

SpecLoad == InitLoad /\ [][NextLoad]_vars

\* ----------------------------------------- the aggregation loop on its own
InitAgg ==
    /\ max_concurrent_requests = 1
    /\ requests_per_second = REQUESTS_PER_SECOND
    /\ batch_size = BATCH_SIZE
    /\ Constructed
    /\ agg_commits \in SeqsUpTo(CommitShapes, MaxCommits)
    /\ agg_idx = 0
    /\ authors_count = <<>>

\* one iteration of `for commit in commits` (main.py 108-111)
AggStep ==
    /\ agg_idx < Len(agg_commits)
    /\ authors_count' = CountCommit(authors_count, agg_commits[agg_idx + 1])
    /\ agg_idx' = agg_idx + 1
    /\ UNCHANGED <<confVars, agg_commits, gateVars, taskVars, mainVars, saveVars>>

NextAgg == AggStep

SpecAgg == InitAgg /\ [][NextAgg]_vars

\* ================================================================ claims
InFlight == {i \in Callers : pc[i] = "inflight"}

\* C1: at most max_concurrent_requests requests are in flight at any time,
\* however many tasks call _make_request; the others wait for a slot.
C1_ConcurrencyCap == Cardinality(InFlight) <= max_concurrent_requests

\* K = 2 requests are in flight and a third task, which has passed the
\* limiter, is suspended on the semaphore
C1_Witness ==
    /\ max_concurrent_requests = 2
    /\ Cardinality(InFlight) = 2
    /\ \E i \in Callers : pc[i] = "sem" /\ acq_age[i] # NotAcquired

\* callers that passed the limiter less than one second ago
RecentAcquirers == {i \in Callers : acq_age[i] \in 0..(TicksPerSecond - 1)}

\* C2: in any rolling 1-second window at most requests_per_second tasks
\* pass the limiter of _make_request.
C2_RateCap == Cardinality(RecentAcquirers) <= requests_per_second

\* C3: the slot of a request is released exactly once whatever its outcome
\* (the free slots and the requests in flight always add up to
\* max_concurrent_requests, so all slots are free when none is in flight),
\* and the end of a request leaves the level of the limiter as it is.
C3_SlotReleasedOnce ==
    /\ [](semaphore + Cardinality(InFlight) = max_concurrent_requests)
    /\ [][\A i \in Callers :
            pc[i] = "inflight" /\ pc'[i] # "inflight"
            => semaphore' = semaphore + 1 /\ level' = level]_vars

\* one request returned, one failed in raise_for_status, one failed in the
\* transport, and every slot is free again
C3_Witness ==
    /\ semaphore = max_concurrent_requests
    /\ \E i, j, k \in Callers :
         /\ pc[i] = "done"
         /\ pc[j] = "failed" /\ exc[j] = "ClientResponseError"
         /\ pc[k] = "failed" /\ exc[k] = "ClientConnectionError"

PastGather == main_pc \notin {"start", "list", "gather"}
\* the task of main() was cancelled from outside
Cancelled == main_exc = "CancelledError"

\* the required fields of raw record r are present
WellFormed(r) ==
    /\ RequiredKeys \subseteq DOMAIN r
    /\ "login" \in DOMAIN r["owner"]

\* Repository rep carries the position and the fields of raw record r
BuiltFrom(rep, r, position) ==
    /\ rep.position = position
    /\ rep.name = (IF "name" \in DOMAIN r THEN r["name"] ELSE "UNKNOWN")
    /\ rep.owner = r["owner"]["login"]
    /\ rep.stars = r["stargazers_count"]
    /\ rep.watchers = r["watchers_count"]
    /\ rep.forks = r["forks_count"]

\* C4: when the list call returns n records, get_repositories returns n
\* results and the i-th has position i and the fields of the i-th record,
\* in whatever order the tasks end.
C4_ResultsInListOrder ==
    repos_data.returned =>
        /\ Len(repos_data.value) = Len(top_repos)
        /\ \A i \in 1..Len(top_repos) :
              /\ repos_data.value[i] # NoResult
              /\ WellFormed(top_repos[i])
              /\ BuiltFrom(repos_data.value[i], top_repos[i], i)

\* get_repositories has returned two results whose tasks ended in the
\* reverse of the list order
C4_Witness ==
    /\ repos_data.returned
    /\ Len(repos_data.value) = 2
    /\ done_order = <<2, 1>>

CollectErrors == {"KeyError", "RuntimeError"} \cup ClientErrors

\* C5: once a task has failed, get_repositories returns no results; it
\* raises the error of the first task that failed (unless main is
\* cancelled from outside before it does); a record that lacks a required
\* field never yields a Repository, and every Repository carries the
\* fields of its record, none defaulted.
C5_AllOrNothing ==
    /\ (\E i \in Tasks : pc[i] = "failed") =>
          /\ ~repos_data.returned
          /\ main_pc # "saving"
          /\ PastGather /\ ~Cancelled =>
                /\ gather_error \in Tasks
                /\ pc[gather_error] = "failed"
                /\ main_exc = exc[gather_error]
                /\ main_exc \in CollectErrors
    /\ \A i \in Tasks :
          /\ ~WellFormed(top_repos[i]) => pc[i] # "done" /\ result[i] = NoResult
          /\ result[i] # NoResult => BuiltFrom(result[i], top_repos[i], i)

\* the task of a record without stargazers_count raised KeyError while a
\* sibling returned its Repository, and get_repositories raised KeyError
C5_Witness ==
    /\ PastGather
    /\ main_exc = "KeyError"
    /\ ~repos_data.returned
    /\ \E i, j \in Tasks :
         /\ "stargazers_count" \notin DOMAIN top_repos[i]
         /\ pc[i] = "failed" /\ exc[i] = "KeyError"
         /\ pc[j] = "done" /\ result[j] # NoResult

SaveCalled(s) == save_pc[s] # "absent"

\* C6: a save_* call is made, and an insert is issued, only after the list
\* call and every task of the run have succeeded; a run whose collection
\* fails makes no save_* call at all.
C6_NoInsertBeforeCollect ==
    /\ (\E s \in Tables : SaveCalled(s) \/ issued[s] # <<>>) =>
          /\ pc[0] = "done"
          /\ \A i \in Tasks : pc[i] = "done"
          /\ repos_data.returned
    /\ (pc[0] = "failed" \/ \E i \in Tasks : pc[i] = "failed") =>
          \A s \in Tables : ~SaveCalled(s) /\ issued[s] = <<>> /\ stored[s] = <<>>

\* a run over a record without stargazers_count has ended: collection
\* failed and no save_* call was made
C6_Witness ==
    /\ main_pc = "finished"
    /\ main_exc = "KeyError"
    /\ \E i \in Tasks : "stargazers_count" \notin DOMAIN top_repos[i]
    /\ \A s \in Tables : ~SaveCalled(s) /\ issued[s] = <<>>

RECURSIVE SumCounts(_)
SumCounts(ac) == IF ac = <<>> THEN 0 ELSE Head(ac)[2] + SumCounts(Tail(ac))

\* C7: the aggregation drops no commit: after any number of iterations the
\* counts add up to the number of commit records consumed, a record
\* without author being counted under "unknown".
C7_NoCommitDropped == SumCounts(authors_count) = agg_idx

CeilDiv(n, b) == (n + b - 1) \div b

\* C8: a save_* call over n rows issues ceil(n / batch_size) inserts, none
\* of more than batch_size rows, whose rows in the order of issue are the
\* rows of the input in their order; before its end the chunks issued are
\* a prefix of the input.
C8_Chunks ==
    \A s \in Tables :
        /\ \A k \in 1..Len(issued[s]) : Len(issued[s][k]) <= batch_size
        /\ Flatten(issued[s]) = SubSeq(values[s], 1, Len(Flatten(issued[s])))
        /\ save_pc[s] = "done" =>
              /\ Len(issued[s]) = CeilDiv(Len(values[s]), batch_size)
              /\ Flatten(issued[s]) = values[s]

\* a save_* call over 3 rows with batch_size 2 has ended: two inserts, the
\* second of one row
C8_Witness ==
    /\ batch_size = 2
    /\ \E s \in Tables :
         /\ save_pc[s] = "done"
         /\ Len(values[s]) = 3
         /\ Len(issued[s]) = 2
         /\ Len(issued[s][2]) = 1

\* C9: when the insert of chunk j fails (j counted from 0, the loop being
\* at i = j * batch_size), the call has issued j + 1 inserts and no more,
\* has raised, and the store holds the rows of the first j chunks.
C9_FailedChunkAborts ==
    \A s \in Tables :
        save_pc[s] = "failed" =>
            LET j == save_i[s] \div batch_size IN
            /\ Len(issued[s]) = j + 1
            /\ stored[s] = SubSeq(values[s], 1, j * batch_size)
            /\ save_error # ""

\* a call over 3 rows with batch_size 1 failed on its second chunk: the
\* first row is stored, the third was never passed to the store
C9_Witness ==
    /\ batch_size = 1
    /\ \E s \in Tables :
         /\ save_pc[s] = "failed"
         /\ Len(values[s]) = 3
         /\ Len(issued[s]) = 2
         /\ stored[s] = <<values[s][1]>>

\* C10: a save_* call with no rows issues no insert.
C10_EmptyInputNoInsert ==
    \A s \in Tables :
        SaveCalled(s) /\ values[s] = <<>> =>
            /\ issued[s] = <<>>
            /\ save_pc[s] \in {"ready", "done"}

\* the three save_* calls have ended on empty inputs without any insert
C10_Witness ==
    \A s \in Tables :
        save_pc[s] = "done" /\ values[s] = <<>> /\ issued[s] = <<>>

\* a commit record the loop counts, and the author it is counted under
Counted(commit) == "author" \in DOMAIN commit /\ commit["author"] # Null
AuthorOf(commit) ==
    IF "login" \in DOMAIN commit["author"] THEN commit["author"]["login"]
    ELSE "unknown"
AuthorNames == {"a", "b", "unknown"}
CountedFor(commits, a) ==
    Cardinality({k \in 1..Len(commits) :
                    Counted(commits[k]) /\ AuthorOf(commits[k]) = a})
NameOf(r) == IF "name" \in DOMAIN r THEN r["name"] ELSE "UNKNOWN"

\* the run has ended without an exception
Succeeded == main_pc = "finished" /\ main_exc = ""

\* C11: once get_repositories has returned n Repository objects, the rows
\* given to the save_* calls are n repository rows, n position rows with
\* the positions 1..n in the order of the list, and for every repository
\* and every author with at least one counted commit exactly one
\* author-commit row, whose commits_num is the number of those commits
\* (>= 1), and no other author-commit row; after a successful run exactly
\* these rows were passed to the store.
C11_RowsOfARun ==
    repos_data.returned =>
        LET n == Len(top_repos)
            rows == values["repositories_authors_commits"]
        IN
        /\ Len(values["repositories"]) = n
        /\ Len(values["repositories_positions"]) = n
        /\ \A j \in 1..n :
              /\ values["repositories"][j][1] = NameOf(top_repos[j])
              /\ values["repositories_positions"][j][2] = NameOf(top_repos[j])
              /\ values["repositories_positions"][j][3] = j
        /\ \A j \in 1..n : \A a \in AuthorNames :
              Cardinality({k \in 1..Len(rows) :
                              rows[k][2] = NameOf(top_repos[j]) /\ rows[k][3] = a})
                = (IF CountedFor(task_commits[j], a) >= 1 THEN 1 ELSE 0)
        /\ \A k \in 1..Len(rows) :
              /\ rows[k][4] >= 1
              /\ \E j \in 1..n :
                    /\ rows[k][2] = NameOf(top_repos[j])
                    /\ rows[k][3] \in AuthorNames
                    /\ rows[k][4] = CountedFor(task_commits[j], rows[k][3])
        /\ Succeeded => \A s \in Tables : Flatten(issued[s]) = values[s]

\* a successful run over two repositories, one without any counted commit
\* and one with commits of two authors: 2 + 2 + 2 rows were inserted
C11_Witness ==
    /\ Succeeded
    /\ Len(top_repos) = 2
    /\ Len(Flatten(issued["repositories"])) = 2
    /\ Len(Flatten(issued["repositories_positions"])) = 2
    /\ Len(Flatten(issued["repositories_authors_commits"])) = 2
    /\ \E j \in 1..2 : \A a \in AuthorNames : CountedFor(task_commits[j], a) = 0

\* the timestamp column of a row of table s (main.py 153-155)
RowDate(s, row) == IF s = "repositories" THEN row[7] ELSE row[1]
AllStamped(rows, s) == \A k \in 1..Len(rows) : RowDate(s, rows[k]) = date_today

\* C12: every row that main builds, every row of every chunk passed to the
\* store and every row stored, in all three tables, carries the one
\* timestamp date_today of the run, for every interleaving of the three
\* save_* calls and every batch_size.
C12_OneTimestamp ==
    date_today # "" =>
        \A s \in Tables :
            /\ AllStamped(values[s], s)
            /\ AllStamped(Flatten(issued[s]), s)
            /\ AllStamped(stored[s], s)

\* with one row per chunk, the author-commit rows are at their third chunk
\* while the position rows are at their second and the two repository rows
\* are stored
C12_Witness ==
    /\ date_today # ""
    /\ batch_size = 1
    /\ Len(issued["repositories_authors_commits"]) = 3
    /\ save_pc["repositories_authors_commits"] = "inserting"
    /\ Len(issued["repositories_positions"]) = 2
    /\ save_pc["repositories_positions"] = "inserting"
    /\ Len(stored["repositories"]) = 2

RECURSIVE SumSent(_)
SumSent(S) ==
    IF S = {} THEN 0
    ELSE LET i == CHOOSE j \in S : TRUE IN sent[i] + SumSent(S \ {i})

\* C13: no call of _make_request hands more than one request to the
\* session, only the search call and the tasks of the records listed call
\* it, and so a run sends at most 1 + n requests, n being the number of
\* records the search returned (0 before it returns), whatever fails.
C13_NoRetry ==
    /\ \A i \in Callers : sent[i] <= 1
    /\ \A i \in Callers \ ({0} \cup Tasks) : sent[i] = 0
    /\ SumSent(Callers) <= 1 + Len(top_repos)

\* a run over two records has ended after 1 + 2 requests, one of which
\* failed with a ClientError and was not sent again
C13_Witness ==
    /\ main_pc = "finished"
    /\ Len(top_repos) = 2
    /\ SumSent(Callers) = 3
    /\ \E i \in Tasks : pc[i] = "failed" /\ exc[i] \in ClientErrors /\ sent[i] = 1

AllAdmitted == \A i \in BurstCallers : acq_age[i] # NotAcquired

\* C14: when 2 * requests_per_second tasks call _make_request at the same
\* instant and max_concurrent_requests >= 2 * requests_per_second, no task
\* waits for the semaphore, and once the last of them has passed the
\* limiter the first passed it a full second (TicksPerSecond ticks, where
\* the ages saturate) or more ago.
C14_BurstTakesASecond ==
    /\ \A i \in BurstCallers : pc[i] # "sem"
    /\ AllAdmitted => \E i \in BurstCallers : acq_age[i] = TicksPerSecond

\* rate cap 2, concurrency cap 4: the fourth task has just passed the
\* limiter, one second after the first
C14_Witness ==
    /\ requests_per_second = 2
    /\ max_concurrent_requests = 4
    /\ AllAdmitted
    /\ \E i, j \in BurstCallers : acq_age[i] = 0 /\ acq_age[j] = TicksPerSecond

\* callers whose request was sent less than one second ago
RecentSenders == {i \in Callers : sent_age[i] \in 0..(TicksPerSecond - 1)}

\* C15: in any 1-second window at most requests_per_second requests are
\* sent (handed to the session with the token and the slot held), also
\* when tasks that passed the limiter waited for a slot.
C15_SendRateCap == Cardinality(RecentSenders) <= requests_per_second

\* get_repositories has raised the exception of a task
CollectFailed == PastGather /\ gather_error # 0 /\ ~Cancelled

\* C16: once get_repositories has raised the error of the first task that
\* failed, the sibling tasks are cancelled: none is in flight (so none has
\* stayed in flight and none has started a request since).
C16_SiblingsCancelled ==
    CollectFailed =>
        /\ main_exc = exc[gather_error]
        /\ \A i \in Tasks : pc[i] # "inflight"

\* C17: when main is cancelled while get_repositories is awaited, the
\* tasks that wait for the limiter or for a slot or hold a slot are
\* abandoned and the slots given back: no caller is pending and all
\* max_concurrent_requests slots are free, at once when gather was still
\* waiting for its tasks and at the end of the run at the latest; no save_*
\* call is made and no insert issued.
C17_CancelReleases ==
    Cancelled =>
        /\ ~repos_data.returned
        /\ \A s \in Tables : ~SaveCalled(s) /\ issued[s] = <<>> /\ stored[s] = <<>>
        /\ (gather_error = 0 \/ main_pc = "finished") =>
              /\ semaphore = max_concurrent_requests
              /\ \A i \in Callers : ~Pending(pc[i])

\* main was cancelled in gather while one task held the only slot (its
\* request was sent) and another, past the limiter, waited for it: both
\* are cancelled and the slot is free
C17_Witness ==
    /\ Cancelled
    /\ main_pc = "close_http"
    /\ gather_error = 0
    /\ max_concurrent_requests = 1
    /\ semaphore = 1
    /\ \E i, j \in Tasks :
         /\ pc[i] = "cancelled" /\ sent[i] = 1
         /\ pc[j] = "cancelled" /\ sent[j] = 0 /\ acq_age[j] # NotAcquired

\* the chunks of table s issued before the last one
EarlierChunks(s) == SubSeq(issued[s], 1, Len(issued[s]) - 1)

\* C18: within a save_* call a chunk is issued only after the inserts of
\* all chunks before it have completed: while the call is inserting, the
\* store holds exactly the rows of every chunk issued but the last, so at
\* most one insert per table is in flight; and a step that issues a chunk
\* of a table leaves no earlier chunk of that table in flight.
C18_ChunksSequential ==
    /\ [](\A s \in Tables :
            /\ save_pc[s] \in {"inserting", "failed"} =>
                  stored[s] = Flatten(EarlierChunks(s))
            /\ save_pc[s] = "done" => stored[s] = Flatten(issued[s]))
    /\ [][\A s \in Tables :
            Len(issued'[s]) > Len(issued[s]) =>
                /\ Len(issued'[s]) = Len(issued[s]) + 1
                /\ stored'[s] = Flatten(issued[s])]_vars

\* the save_* calls interleave: the author-commit rows are stored, in two
\* chunks, while the first chunk of the repository rows is still in flight
\* and the position rows are at their second chunk
C18_Witness ==
    /\ save_pc["repositories_authors_commits"] = "done"
    /\ Len(issued["repositories_authors_commits"]) = 2
    /\ save_pc["repositories"] = "inserting"
    /\ Len(issued["repositories"]) = 1
    /\ save_pc["repositories_positions"] = "inserting"
    /\ Len(issued["repositories_positions"]) = 2

\* caller i is suspended in the limiter or on the semaphore
Waiting(i) == pc[i] \in {"limiter", "sem"}
\* caller i has held the token and the slot: its request was sent, or
\* refused by a session already closed
Admitted(i) == sent[i] >= 1 \/ exc[i] = "RuntimeError"
\* main awaits get_repositories
Collecting == main_pc \in {"list", "gather"}

\* C19 as stated: under a fair event loop on which every request sent is
\* answered or fails, every caller suspended in the gate is eventually
\* admitted (a run cancelled from outside aside), and get_repositories
\* eventually returns or raises.
C19_EveryCallerAdmitted ==
    /\ \A i \in Callers : Waiting(i) ~> (Admitted(i) \/ Cancelled)
    /\ Collecting ~> ~Collecting

\* C19, amended: under a fair event loop on which every request sent is
\* answered or fails, get_repositories eventually returns or raises, and
\* every caller suspended in the gate is eventually admitted unless a task
\* of the run fails or the run is cancelled first (main then leaves, and a
\* caller still suspended is cancelled without having been admitted).
C19_GateProgress ==
    /\ \A i \in Callers :
          Waiting(i) ~> (Admitted(i) \/ gather_error # 0 \/ Cancelled)
    /\ Collecting ~> ~Collecting

\* get_repositories has returned the results of two tasks that shared the
\* only slot, so that the second had to wait in the gate until the request
\* of the first was answered
C19_Witness ==
    /\ repos_data.returned
    /\ Len(repos_data.value) = 2
    /\ max_concurrent_requests = 1
    /\ \A i \in Tasks : Admitted(i) /\ pc[i] = "done"

\* github_scraper.close() has just run, with clickhouse_manager.close() next
HttpJustClosed == main_pc = "close_ch"
\* clickhouse_manager.close() has just run
ChJustClosed == main_pc = "exit"

\* C20: in a run that is not cancelled from outside, no task is pending or
\* in flight when github_scraper.close() has run and no save_* call is
\* still inserting when clickhouse_manager.close() has run (nothing
\* becomes pending after main has entered `finally`, so what is pending
\* then was pending when close() ran).
C20_ClosedWhenIdle ==
    ~Cancelled =>
        /\ HttpJustClosed => \A i \in Tasks : ~Pending(pc[i])
        /\ ChJustClosed => \A s \in Tables : ~Pending(save_pc[s])
====
